---- MODULE Spec2Model ----
(***************************************************************************)
(* The SQLite connection delegate of libzdb, src/db/sqlite/SQLiteConnection.c. *)
(* One caller at a time drives the operation table sqlite3cops over a small *)
(* heap of delegates.  The SQLite engine is an external collaborator: its   *)
(* handles, statements, lock and soft heap limit are the record `sqlite`.   *)
(* SQL text is a sequence of tokens.                                        *)
(***************************************************************************)
EXTENDS Integers, Sequences, FiniteSets

VARIABLES
    delegate,   \* heap of struct ConnectionDelegate_T, one slot per delegate
    sqlite,     \* the engine: handles, statements, lock of the target, heap limit
    objects,    \* ResultSet / PreparedStatement objects handed to callers, by statement
    pc,         \* position of the caller: "idle", or inside the close loop of free
    cur,        \* the delegate the close loop is working on (0 when idle)
    call,       \* the most recent call of the operation table and what it returned
    build       \* which heap-limit branch of _setProperties was compiled in

vars == <<delegate, sqlite, objects, pc, cur, call, build>>

\* ------------------------------------------------------------------ bounds
MaxConns == 2       \* delegate slots of the pool specifications
OneConn == 1        \* delegate slots of the single-connection specification
MaxStmts == 2       \* native statements that can exist at once
MaxParams == 2      \* parameters of a URL
MaxLock == 3        \* longest time (in sleep slices) another writer holds the lock

\* --------------------------------------------------------- program constants
SQLITE_OK == 0
SQLITE_ERROR == 1
SQLITE_BUSY == 5
SQLITE_LOCKED == 6
SQLITE_CANTOPEN == 14
SQL_DEFAULT_TIMEOUT == 2

Conns == 1..MaxConns
Handles == 1..(MaxConns + 1)
StmtIds == 1..MaxStmts
Builds == {"HAVE_SQLITE3_SOFT_HEAP_LIMIT64", "NO_HEAP_LIMIT"}

\* ------------------------------------------------------------------ values
NoDelegate ==
    [alloc |-> FALSE, delegator |-> 0, db |-> 0, maxRows |-> 0, timeout |-> 0,
     lastError |-> 0, sb |-> <<>>]

NoHandle ==
    [open |-> FALSE, busyTimeout |-> 0, errcode |-> 0, inTx |-> FALSE, rowid |-> 0,
     changes |-> 0]

NoObject ==
    [kind |-> "none", stmt |-> 0, maxRows |-> 0, keep |-> FALSE, db |-> 0, paramCount |-> 0]

NoCall ==
    [op |-> "none", conn |-> 0, db |-> 0, returned |-> TRUE, retried |-> FALSE, ret |-> 0,
     freed |-> FALSE, text |-> "", error |-> <<>>, issued |-> <<>>, status |-> 0, own |-> 0,
     waited |-> 0, startLock |-> 0, url |-> [path |-> "", params |-> <<>>], fresh |-> FALSE]

Min(S) == CHOOSE x \in S : \A y \in S : x <= y

\* ------------------------------------------------------------ URL collaborator
ParamSet ==
    { [name |-> "heap_limit", value |-> "2"],
      [name |-> "cache_size", value |-> "1"],
      [name |-> "foreign_keys", value |-> "("] }

Paths == {"", "/db", "/nodir/db"}

RECURSIVE SeqsUpTo(_, _)
SeqsUpTo(S, n) ==
    IF n = 0 THEN {<<>>}
    ELSE LET shorter == SeqsUpTo(S, n - 1)
         IN shorter \cup {Append(s, x) : s \in {t \in shorter : Len(t) = n - 1}, x \in S}

URLs == [path : Paths, params : SeqsUpTo(ParamSet, MaxParams)]

URL_getPath(url) == url.path

URL_getParameterNames(url) == [i \in 1..Len(url.params) |-> url.params[i].name]

URL_getParameter(url, name) ==
    url.params[Min({i \in 1..Len(url.params) : url.params[i].name = name})].value

Str_parseInt(s) ==
    LET digits == <<"0", "1", "2", "3", "4", "5", "6", "7", "8", "9">>
    IN (CHOOSE i \in 1..10 : digits[i] = s) - 1

\* ------------------------------------------------- formatting collaborator
RECURSIVE Format(_, _)
Format(template, args) ==
    IF template = <<>> THEN <<>>
    ELSE IF Head(template) = "%s" /\ args # <<>>
         THEN <<Head(args)>> \o Format(Tail(template), Tail(args))
         ELSE <<Head(template)>> \o Format(Tail(template), args)

StringBuffer_vset(template, args) == Format(template, args)

StringBuffer_append(sb, template, args) == sb \o Format(template, args)

Str_cat(template, args) == Format(template, args)

\* ------------------------------------------------------------ the engine
sqlite3_errmsg(status) ==
    CASE status = SQLITE_OK -> "not an error"
      [] status = SQLITE_ERROR -> "SQL logic error"
      [] status = SQLITE_BUSY -> "database is locked"
      [] status = SQLITE_LOCKED -> "database table is locked"
      [] OTHER -> "unable to open database file"

\* the engine's verdict on a statement when nobody holds the lock
OwnStatus(h, sql) ==
    IF sql = <<>> THEN SQLITE_OK
    ELSE CASE Head(sql) = "select 1;" -> SQLITE_OK
           [] Head(sql) = "BEGIN TRANSACTION;" ->
                  IF h.inTx THEN SQLITE_ERROR ELSE SQLITE_OK
           [] Head(sql) \in {"COMMIT TRANSACTION;", "ROLLBACK TRANSACTION;"} ->
                  IF h.inTx THEN SQLITE_OK ELSE SQLITE_ERROR
           [] Head(sql) = "PRAGMA" ->
                  IF \E i \in 1..Len(sql) : sql[i] = "(" THEN SQLITE_ERROR ELSE SQLITE_OK
           [] Head(sql) \in {"INSERT OR REPLACE", "SELECT"} -> SQLITE_OK
           [] OTHER -> SQLITE_ERROR

Effect(h, sql) ==
    IF sql = <<>> THEN h
    ELSE CASE Head(sql) = "BEGIN TRANSACTION;" -> [h EXCEPT !.inTx = TRUE]
           [] Head(sql) \in {"COMMIT TRANSACTION;", "ROLLBACK TRANSACTION;"} ->
                  [h EXCEPT !.inTx = FALSE]
           [] Head(sql) = "INSERT OR REPLACE" ->
                  [h EXCEPT !.rowid = Str_parseInt(sql[2]), !.changes = 1]
           [] OTHER -> h

Locked(S, sql) == S.lockLeft > 0 /\ sql # <<>>

sqlite3_open_v2(S, path) ==
    LET db == Min({h \in Handles : ~S.handles[h].open})
        status == IF path = "/db" THEN SQLITE_OK ELSE SQLITE_CANTOPEN
    IN [status |-> status, db |-> db,
        S |-> [S EXCEPT !.handles[db] = [NoHandle EXCEPT !.open = TRUE, !.errcode = status]]]

sqlite3_close(S, db) ==
    IF \E s \in StmtIds : S.stmts[s] = db
    THEN [status |-> SQLITE_BUSY, S |-> [S EXCEPT !.handles[db].errcode = SQLITE_BUSY]]
    ELSE [status |-> SQLITE_OK, S |-> [S EXCEPT !.handles[db] = NoHandle]]

sqlite3_busy_timeout(S, db, ms) == [S EXCEPT !.handles[db].busyTimeout = ms]

sqlite3_soft_heap_limit64(S, n) == [S EXCEPT !.heapLimit = n]

\* what the engine answers to sql on handle db: the lock of the other writer first
NativeStatus(S, db, sql) ==
    IF Locked(S, sql) THEN S.lockKind ELSE OwnStatus(S.handles[db], sql)

Executed(S, db, sql, status) ==
    [status |-> status, stmt |-> 0,
     S |-> [S EXCEPT !.handles[db] =
                [(IF status = SQLITE_OK THEN Effect(S.handles[db], sql) ELSE S.handles[db])
                     EXCEPT !.errcode = status]]]

sqlite3_exec(S, db, sql) == Executed(S, db, sql, NativeStatus(S, db, sql))

CompileStatus(S, sql) ==
    IF Locked(S, sql) THEN S.lockKind
    ELSE IF sql # <<>> /\ Head(sql) \in {"INSERT OR REPLACE", "SELECT"}
         THEN SQLITE_OK ELSE SQLITE_ERROR

\* a statement is allocated only when the compilation succeeded
Compiled(S, db, status) ==
    IF status = SQLITE_OK
    THEN [status |-> status, stmt |-> Min({s \in StmtIds : S.stmts[s] = 0}),
          S |-> [S EXCEPT !.handles[db].errcode = status,
                          !.stmts[Min({s \in StmtIds : S.stmts[s] = 0})] = db]]
    ELSE [status |-> status, stmt |-> 0, S |-> [S EXCEPT !.handles[db].errcode = status]]

sqlite3_prepare_v2(S, db, sql) == Compiled(S, db, CompileStatus(S, sql))

sqlite3_finalize(S, stmt) == [S EXCEPT !.stmts[stmt] = 0]

sqlite3_bind_parameter_count(sql) == Cardinality({i \in 1..Len(sql) : sql[i] = "?"})

sqlite3_last_insert_rowid(S, db) == S.handles[db].rowid

sqlite3_changes(S, db) == S.handles[db].changes

\* one sleep slice passes; the other writer's lock runs down with it
Time_usleep(S) ==
    IF S.lockLeft > 1 THEN [S EXCEPT !.lockLeft = S.lockLeft - 1]
    ELSE [S EXCEPT !.lockLeft = 0, !.lockKind = SQLITE_BUSY]

\* ------------------------------------------------ the timed retry of a native call
\* status = (action), again after one sleep slice while the status is busy or locked
\* and the wait so far is below the timeout
RECURSIVE EXEC_SQLITE(_, _, _, _, _, _)
RECURSIVE Retry(_, _, _, _, _, _)
Retry(r, db, sql, native, timeout, x) ==
    IF r.status \in {SQLITE_BUSY, SQLITE_LOCKED} /\ x < timeout
    THEN EXEC_SQLITE(Time_usleep(r.S), db, sql, native, timeout, x + 1)
    ELSE [status |-> r.status, stmt |-> r.stmt, S |-> r.S, waited |-> x]

EXEC_SQLITE(S, db, sql, native, timeout, x) ==
    Retry(IF native = "exec" THEN sqlite3_exec(S, db, sql) ELSE sqlite3_prepare_v2(S, db, sql),
          db, sql, native, timeout, x)

\* release of a delegate's memory; the caller's pointer is cleared with it
FREE(C) == NoDelegate

\* the pointer value a caller holds for delegate C living in slot c
Ptr(C, c) == IF C.alloc THEN c ELSE 0

\* ------------------------------------------------------------ private methods
\* Opened with the close of the handle of a failed open left out
Opened_leak(o, path) ==
    IF SQLITE_OK # o.status
    THEN [db |-> 0, status |-> o.status, S |-> o.S,
          error |-> Str_cat(<<"cannot open database", "%s", "--", "%s">>,
                            <<path, sqlite3_errmsg(o.status)>>)]
    ELSE [db |-> o.db, status |-> o.status, S |-> o.S, error |-> <<>>]

\* _doConnect after the native open returned o
Opened(o, path) ==
    IF SQLITE_OK # o.status
    THEN [db |-> 0, status |-> o.status, S |-> sqlite3_close(o.S, o.db).S,
          error |-> Str_cat(<<"cannot open database", "%s", "--", "%s">>,
                            <<path, sqlite3_errmsg(o.status)>>)]
    ELSE [db |-> o.db, status |-> o.status, S |-> o.S, error |-> <<>>]

_doConnect(S, url) ==
    IF URL_getPath(url) = ""
    THEN [db |-> 0, status |-> SQLITE_OK, S |-> S,
          error |-> Str_cat(<<"no database specified in URL">>, <<>>)]
    ELSE Opened(sqlite3_open_v2(S, URL_getPath(url)), URL_getPath(url))

\* StoreStatus recording failures only: a success does not clear an earlier failure
StoreStatus_errors(C, sql, r) ==
    [C |-> IF r.status = SQLITE_OK THEN C ELSE [C EXCEPT !.lastError = r.status],
     S |-> r.S, stmt |-> r.stmt, waited |-> r.waited, issued |-> <<sql>>]

\* the assignment of the retried status to C->lastError
StoreStatus(C, sql, r) ==
    [C |-> [C EXCEPT !.lastError = r.status], S |-> r.S, stmt |-> r.stmt,
     waited |-> r.waited, issued |-> <<sql>>]

\* _executeSQL with the native call made once, outside the retry
_executeSQL_once(C, sql, S) == StoreStatus(C, sql, EXEC_SQLITE(S, C.db, sql, "exec", 0, 0))

_executeSQL(C, sql, S) == StoreStatus(C, sql, EXEC_SQLITE(S, C.db, sql, "exec", C.timeout, 0))

\* PropertiesLoop without the special case: heap_limit goes to the engine as a PRAGMA too
RECURSIVE PropertiesLoop_forward(_, _, _, _, _)
PropertiesLoop_forward(url, i, sb, S, b) ==
    IF i > Len(URL_getParameterNames(url)) THEN [sb |-> sb, S |-> S]
    ELSE PropertiesLoop_forward(url, i + 1,
             StringBuffer_append(sb, <<"PRAGMA", "%s", "=", "%s", ";">>,
                 <<URL_getParameterNames(url)[i],
                   URL_getParameter(url, URL_getParameterNames(url)[i])>>),
             S, b)

\* the loop of _setProperties from parameter i on: the buffer and the engine after it
RECURSIVE PropertiesLoop(_, _, _, _, _)
PropertiesLoop(url, i, sb, S, b) ==
    IF i > Len(URL_getParameterNames(url)) THEN [sb |-> sb, S |-> S]
    ELSE IF URL_getParameterNames(url)[i] = "heap_limit"
         THEN PropertiesLoop(url, i + 1, sb,
                  IF b = "HAVE_SQLITE3_SOFT_HEAP_LIMIT64"
                  THEN sqlite3_soft_heap_limit64(S,
                           Str_parseInt(URL_getParameter(url, URL_getParameterNames(url)[i]))
                               * 1024)
                  ELSE S, b)
         ELSE PropertiesLoop(url, i + 1,
                  StringBuffer_append(sb, <<"PRAGMA", "%s", "=", "%s", ";">>,
                      <<URL_getParameterNames(url)[i],
                        URL_getParameter(url, URL_getParameterNames(url)[i])>>),
                  S, b)

\* _setProperties after the pragmas were executed
PragmasApplied(r) ==
    IF r.C.lastError # SQLITE_OK
    THEN [ok |-> FALSE, C |-> r.C, S |-> r.S, waited |-> r.waited, issued |-> r.issued,
          error |-> Str_cat(<<"unable to set database pragmas", "--", "%s">>,
                            <<sqlite3_errmsg(r.S.handles[r.C.db].errcode)>>)]
    ELSE [ok |-> TRUE, C |-> r.C, S |-> r.S, waited |-> r.waited, issued |-> r.issued,
          error |-> <<>>]

ExecutePragmas(C, l) == PragmasApplied(_executeSQL([C EXCEPT !.sb = l.sb], l.sb, l.S))

_setProperties(C, S, url, b) ==
    IF Len(URL_getParameterNames(url)) > 0
    THEN ExecutePragmas(C, PropertiesLoop(url, 1, <<>>, S, b))
    ELSE [ok |-> TRUE, C |-> C, S |-> S, waited |-> 0, issued |-> <<>>, error |-> <<>>]

\* ------------------------------------------------- ConnectionDelegate methods
\* Closed giving up on a busy handle: the delegate is released whatever close returned
Closed_force(C, r) == [busy |-> FALSE, C |-> FREE(C), S |-> r.S]

\* one pass of the loop of free after the native close returned r
Closed(C, r) ==
    IF r.status = SQLITE_BUSY
    THEN [busy |-> TRUE, C |-> C, S |-> r.S]
    ELSE [busy |-> FALSE, C |-> FREE(C), S |-> r.S]

SQLiteConnection_free(C, S) == Closed(C, sqlite3_close(S, C.db))

\* Configured without the free of the delegate whose pragmas failed
Configured_keep(p) ==
    [C |-> p.C, S |-> p.S, error |-> p.error, status |-> p.C.lastError, waited |-> p.waited,
     issued |-> p.issued]

\* the end of new: p is what _setProperties returned
Configured(p) ==
    IF ~p.ok
    THEN [C |-> SQLiteConnection_free(p.C, p.S).C, S |-> SQLiteConnection_free(p.C, p.S).S,
          error |-> p.error, status |-> p.C.lastError, waited |-> p.waited,
          issued |-> p.issued]
    ELSE [C |-> p.C, S |-> p.S, error |-> p.error, status |-> p.C.lastError,
          waited |-> p.waited, issued |-> p.issued]

\* NEW(C) and the assignments of new to the fields of the delegate
NewDelegate(db, delegator) ==
    [NoDelegate EXCEPT !.alloc = TRUE, !.db = db, !.delegator = delegator,
                       !.timeout = SQL_DEFAULT_TIMEOUT]

\* new after _doConnect returned d
Connected(d, url, delegator, b) ==
    IF d.db = 0
    THEN [C |-> NoDelegate, S |-> d.S, error |-> d.error, status |-> d.status,
          waited |-> 0, issued |-> <<>>]
    ELSE Configured(_setProperties(NewDelegate(d.db, delegator),
             sqlite3_busy_timeout(d.S, d.db, NewDelegate(d.db, delegator).timeout), url, b))

SQLiteConnection_new(S, url, delegator, b) == Connected(_doConnect(S, url), url, delegator, b)

Result(C, S, ret, waited, issued, obj) ==
    [C |-> C, S |-> S, ret |-> ret, text |-> "", waited |-> waited, issued |-> issued,
     obj |-> obj]

\* return (C->lastError == SQLITE_OK)
ReturnOK(r) ==
    Result(r.C, r.S, IF r.C.lastError = SQLITE_OK THEN 1 ELSE 0, r.waited, r.issued, NoObject)

SQLiteConnection_ping(C, S) == ReturnOK(_executeSQL(C, <<"select 1;">>, S))

SQLiteConnection_beginTransaction(C, S) == ReturnOK(_executeSQL(C, <<"BEGIN TRANSACTION;">>, S))

SQLiteConnection_commit(C, S) == ReturnOK(_executeSQL(C, <<"COMMIT TRANSACTION;">>, S))

\* rollback issuing the statement of commit
SQLiteConnection_rollback_commit(C, S) ==
    ReturnOK(_executeSQL(C, <<"COMMIT TRANSACTION;">>, S))

SQLiteConnection_rollback(C, S) == ReturnOK(_executeSQL(C, <<"ROLLBACK TRANSACTION;">>, S))

SQLiteConnection_lastRowId(C, S) ==
    Result(C, S, sqlite3_last_insert_rowid(S, C.db), 0, <<>>, NoObject)

\* rowsChanged clearing the recorded status on its way
SQLiteConnection_rowsChanged_reset(C, S) ==
    Result([C EXCEPT !.lastError = SQLITE_OK], S, sqlite3_changes(S, C.db), 0, <<>>, NoObject)

SQLiteConnection_rowsChanged(C, S) ==
    Result(C, S, sqlite3_changes(S, C.db), 0, <<>>, NoObject)

SQLiteConnection_execute(C, S, sql, ap) ==
    ReturnOK(_executeSQL([C EXCEPT !.sb = StringBuffer_vset(sql, ap)],
                         StringBuffer_vset(sql, ap), S))

SQLiteResultSet_new(stmt, maxRows, keep) ==
    [kind |-> "ResultSet", stmt |-> stmt, maxRows |-> maxRows, keep |-> keep, db |-> 0,
     paramCount |-> 0]

SQLitePreparedStatement_new(db, stmt, maxRows, paramCount) ==
    [kind |-> "PreparedStatement", stmt |-> stmt, maxRows |-> maxRows, keep |-> FALSE,
     db |-> db, paramCount |-> paramCount]

\* Prepare with the native call made once, outside the retry
Prepare_once(C, S, sql, ap) ==
    StoreStatus([C EXCEPT !.sb = StringBuffer_vset(sql, ap)], StringBuffer_vset(sql, ap),
                EXEC_SQLITE(S, C.db, StringBuffer_vset(sql, ap), "prepare", 0, 0))

\* the prepare common to executeQuery and prepareStatement: the buffer is set, the
\* compilation retried and its status stored
Prepare(C, S, sql, ap) ==
    StoreStatus([C EXCEPT !.sb = StringBuffer_vset(sql, ap)], StringBuffer_vset(sql, ap),
                EXEC_SQLITE(S, C.db, StringBuffer_vset(sql, ap), "prepare", C.timeout, 0))

\* QueryResult creating the ResultSet as a borrower of its statement
QueryResult_borrow(r) ==
    IF r.C.lastError = SQLITE_OK
    THEN Result(r.C, r.S, r.stmt, r.waited, r.issued,
                SQLiteResultSet_new(r.stmt, r.C.maxRows, TRUE))
    ELSE Result(r.C, r.S, 0, r.waited, r.issued, NoObject)

\* executeQuery after the prepare
QueryResult(r) ==
    IF r.C.lastError = SQLITE_OK
    THEN Result(r.C, r.S, r.stmt, r.waited, r.issued,
                SQLiteResultSet_new(r.stmt, r.C.maxRows, FALSE))
    ELSE Result(r.C, r.S, 0, r.waited, r.issued, NoObject)

SQLiteConnection_executeQuery(C, S, sql, ap) == QueryResult(Prepare(C, S, sql, ap))

\* prepareStatement after the prepare
StatementResult(r) ==
    IF r.C.lastError = SQLITE_OK
    THEN Result(r.C, r.S, r.stmt, r.waited, r.issued,
                SQLitePreparedStatement_new(r.C.db, r.stmt, r.C.maxRows,
                    sqlite3_bind_parameter_count(r.C.sb)))
    ELSE Result(r.C, r.S, 0, r.waited, r.issued, NoObject)

SQLiteConnection_prepareStatement(C, S, sql, ap) == StatementResult(Prepare(C, S, sql, ap))

SQLiteConnection_getLastError(C, S) ==
    [Result(C, S, 0, 0, <<>>, NoObject) EXCEPT !.text = sqlite3_errmsg(S.handles[C.db].errcode)]

\* ------------------------------------------------------------------- state
Init ==
    /\ delegate = [c \in Conns |-> NoDelegate]
    /\ sqlite = [handles |-> [h \in Handles |-> NoHandle], stmts |-> [s \in StmtIds |-> 0],
                 heapLimit |-> 0]
    /\ objects = [s \in StmtIds |-> NoObject]
    /\ pc = "idle"
    /\ cur = 0
    /\ call = NoCall
    /\ build \in Builds

Templates == { <<"INSERT OR REPLACE", "%s">>, <<"SELECT", "?">>, <<"SYNTAX ERROR">> }
Aps == { <<"7">> }

\* what another writer does to the target while a call runs: it holds the lock for
\* the first d sleep slices of the call, and the engine reports that as status k
Quiet == <<0, SQLITE_BUSY>>
Locks == {Quiet} \cup ((1..MaxLock) \X {SQLITE_BUSY, SQLITE_LOCKED})

\* the engine as a call finds it
At(lk) ==
    [handles |-> sqlite.handles, stmts |-> sqlite.stmts, heapLimit |-> sqlite.heapLimit,
     lockLeft |-> lk[1], lockKind |-> lk[2]]

Unlocked == At(Quiet)

\* the engine as a call leaves it
Engine(S) == [handles |-> S.handles, stmts |-> S.stmts, heapLimit |-> S.heapLimit]

\* whether the call before this one was the new that returned delegate c
Fresh(c) == call.op = "new" /\ call.ret = c

\* a call of one operation of sqlite3cops on delegate c; r is what the method did,
\* u what it does when nobody holds the lock
Invoke(op, c, lk, r, u) ==
    /\ delegate' = [delegate EXCEPT ![c] = r.C]
    /\ sqlite' = Engine(r.S)
    /\ objects' = IF r.obj.kind = "none" THEN objects
                  ELSE [objects EXCEPT ![r.obj.stmt] = r.obj]
    /\ call' = [NoCall EXCEPT !.op = op, !.conn = c, !.db = r.C.db, !.ret = r.ret,
                    !.text = r.text,
                    !.issued = r.issued, !.status = r.S.handles[r.C.db].errcode,
                    !.own = u.C.lastError, !.waited = r.waited,
                    !.startLock = lk[1], !.fresh = Fresh(c)]
    /\ UNCHANGED <<pc, cur, build>>

Ready(c) == pc = "idle" /\ delegate[c].alloc

\* ------------------------------------------------------------------ actions
NewReturns(c, r, url, lk) ==
    /\ delegate' = [delegate EXCEPT ![c] = r.C]
    /\ sqlite' = Engine(r.S)
    /\ call' = [NoCall EXCEPT !.op = "new", !.conn = Ptr(r.C, c), !.ret = Ptr(r.C, c),
                    !.db = r.C.db,
                    !.error = r.error, !.issued = r.issued, !.status = r.status,
                    !.waited = r.waited, !.startLock = lk[1], !.url = url]
    /\ UNCHANGED <<objects, pc, cur, build>>

FreeSlot(limit) == Min({x \in 1..limit : ~delegate[x].alloc})

New(limit, url, lk) ==
    /\ pc = "idle"
    /\ \E c \in 1..limit : ~delegate[c].alloc
    /\ \E h \in Handles : ~sqlite.handles[h].open
    /\ NewReturns(FreeSlot(limit),
                  SQLiteConnection_new(At(lk), url, FreeSlot(limit), build), url, lk)

FreePass(c, f) ==
    /\ delegate' = [delegate EXCEPT ![c] = f.C]
    /\ sqlite' = Engine(f.S)
    /\ pc' = IF f.busy THEN "sleep" ELSE "idle"
    /\ cur' = IF f.busy THEN c ELSE 0
    /\ call' = [NoCall EXCEPT !.op = "free", !.conn = c, !.db = delegate[c].db,
                    !.returned = ~f.busy, !.retried = (pc = "close" \/ f.busy)]
    /\ UNCHANGED <<objects, build>>

Free(c) ==
    /\ Ready(c)
    /\ FreePass(c, SQLiteConnection_free(delegate[c], Unlocked))

FreeSleep ==
    /\ pc = "sleep"
    /\ pc' = "close"
    /\ UNCHANGED <<delegate, sqlite, objects, cur, call, build>>

FreeRetry ==
    /\ pc = "close"
    /\ FreePass(cur, SQLiteConnection_free(delegate[cur], Unlocked))

Ping(c, lk) ==
    /\ Ready(c)
    /\ Invoke("ping", c, lk, SQLiteConnection_ping(delegate[c], At(lk)),
              SQLiteConnection_ping(delegate[c], Unlocked))

BeginTransaction(c, lk) ==
    /\ Ready(c)
    /\ Invoke("beginTransaction", c, lk, SQLiteConnection_beginTransaction(delegate[c], At(lk)),
              SQLiteConnection_beginTransaction(delegate[c], Unlocked))

Commit(c, lk) ==
    /\ Ready(c)
    /\ Invoke("commit", c, lk, SQLiteConnection_commit(delegate[c], At(lk)),
              SQLiteConnection_commit(delegate[c], Unlocked))

Rollback(c, lk) ==
    /\ Ready(c)
    /\ Invoke("rollback", c, lk, SQLiteConnection_rollback(delegate[c], At(lk)),
              SQLiteConnection_rollback(delegate[c], Unlocked))

LastRowId(c) ==
    /\ Ready(c)
    /\ Invoke("lastRowId", c, Quiet, SQLiteConnection_lastRowId(delegate[c], Unlocked),
              SQLiteConnection_lastRowId(delegate[c], Unlocked))

RowsChanged(c) ==
    /\ Ready(c)
    /\ Invoke("rowsChanged", c, Quiet, SQLiteConnection_rowsChanged(delegate[c], Unlocked),
              SQLiteConnection_rowsChanged(delegate[c], Unlocked))

Execute(c, sql, ap, lk) ==
    /\ Ready(c)
    /\ Invoke("execute", c, lk, SQLiteConnection_execute(delegate[c], At(lk), sql, ap),
              SQLiteConnection_execute(delegate[c], Unlocked, sql, ap))

ExecuteQuery(c, sql, ap, lk) ==
    /\ Ready(c)
    /\ \E s \in StmtIds : sqlite.stmts[s] = 0
    /\ Invoke("executeQuery", c, lk, SQLiteConnection_executeQuery(delegate[c], At(lk), sql, ap),
              SQLiteConnection_executeQuery(delegate[c], Unlocked, sql, ap))

PrepareStatement(c, sql, ap, lk) ==
    /\ Ready(c)
    /\ \E s \in StmtIds : sqlite.stmts[s] = 0
    /\ Invoke("prepareStatement", c, lk,
              SQLiteConnection_prepareStatement(delegate[c], At(lk), sql, ap),
              SQLiteConnection_prepareStatement(delegate[c], Unlocked, sql, ap))

GetLastError(c) ==
    /\ Ready(c)
    /\ Invoke("getLastError", c, Quiet, SQLiteConnection_getLastError(delegate[c], Unlocked),
              SQLiteConnection_getLastError(delegate[c], Unlocked))

\* the owner of a ResultSet or PreparedStatement frees it; the statement is finalized
\* unless the object only borrows it. The call that returned the object notes it.
ObjectFree(s) ==
    /\ objects[s].kind # "none"
    /\ objects' = [objects EXCEPT ![s] = NoObject]
    /\ sqlite' = IF objects[s].keep THEN sqlite ELSE Engine(sqlite3_finalize(Unlocked, s))
    /\ call' = IF call.op \in {"executeQuery", "prepareStatement"} /\ call.ret = s
                THEN [call EXCEPT !.freed = TRUE] ELSE call
    /\ UNCHANGED <<delegate, pc, cur, build>>

\* ----------------------------------------------------------- specifications
\* one connection, every operation of the table, another writer on the target
Next ==
    \/ \E url \in URLs, lk \in Locks : New(OneConn, url, lk)
    \/ \E c \in 1..OneConn : Free(c)
    \/ FreeSleep
    \/ FreeRetry
    \/ \E c \in 1..OneConn, lk \in Locks : Ping(c, lk)
    \/ \E c \in 1..OneConn, lk \in Locks : BeginTransaction(c, lk)
    \/ \E c \in 1..OneConn, lk \in Locks : Commit(c, lk)
    \/ \E c \in 1..OneConn, lk \in Locks : Rollback(c, lk)
    \/ \E c \in 1..OneConn : LastRowId(c)
    \/ \E c \in 1..OneConn : RowsChanged(c)
    \/ \E c \in 1..OneConn, sql \in Templates, ap \in Aps, lk \in Locks :
           Execute(c, sql, ap, lk)
    \/ \E c \in 1..OneConn, sql \in Templates, ap \in Aps, lk \in Locks :
           ExecuteQuery(c, sql, ap, lk)
    \/ \E c \in 1..OneConn, sql \in Templates, ap \in Aps, lk \in Locks :
           PrepareStatement(c, sql, ap, lk)
    \/ \E c \in 1..OneConn : GetLastError(c)
    \/ \E s \in StmtIds : ObjectFree(s)

Spec == Init /\ [][Next]_vars

\* a pool of connections opened and closed one caller at a time on a target nobody
\* else writes to, with statements that can keep a handle busy
PoolURLs == [path : Paths, params : SeqsUpTo(ParamSet, 1)]

PoolNext ==
    \/ \E url \in PoolURLs : New(MaxConns, url, Quiet)
    \/ \E c \in Conns : Free(c)
    \/ FreeSleep
    \/ FreeRetry
    \/ \E c \in Conns : Ping(c, Quiet)
    \/ \E c \in Conns : ExecuteQuery(c, <<"SELECT", "?">>, <<>>, Quiet)
    \/ \E s \in StmtIds : ObjectFree(s)

PoolSpec == Init /\ [][PoolNext]_vars

\* the caller inside free keeps running: it comes back from its sleep and tries again
FairPoolSpec == PoolSpec /\ WF_vars(FreeSleep) /\ WF_vars(FreeRetry)

\* ------------------------------------------------------------------ claims
SqlOps ==
    {"ping", "beginTransaction", "commit", "rollback", "execute", "executeQuery",
     "prepareStatement"}
Accessors == {"lastRowId", "rowsChanged", "getLastError"}
Transient == {SQLITE_BUSY, SQLITE_LOCKED}
OpenHandles == {h \in Handles : sqlite.handles[h].open}
Allocated == {c \in Conns : delegate[c].alloc}

\* C1: new returns NULL with a non-empty message exactly when a step failed (no path,
\* open not OK, pragmas not OK); a delegate it returns is allocated, holds an open
\* handle and a status of OK, and no message was produced.
T_C1 ==
    call.op = "new" =>
        /\ call.ret = 0 <=> (call.url.path = "" \/ call.status # SQLITE_OK)
        /\ call.url.path # "/db" => call.ret = 0
        /\ call.ret = 0 => Len(call.error) > 0
        /\ call.ret # 0 =>
               /\ delegate[call.ret].alloc
               /\ delegate[call.ret].db \in OpenHandles
               /\ delegate[call.ret].lastError = SQLITE_OK
               /\ call.error = <<>>

\* a new that failed while applying the pragmas, after the delegate existed
W_C1 == call.op = "new" /\ call.ret = 0 /\ call.issued # <<>>

FreeLoop ==
    /\ pc # "idle" =>
           /\ cur \in Allocated
           /\ delegate[cur].db \in OpenHandles
           /\ sqlite.handles[delegate[cur].db].errcode = SQLITE_BUSY
           /\ call.op = "free" /\ ~call.returned /\ call.retried
    /\ (call.op = "free" /\ ~call.returned) => pc # "idle"
    /\ (call.op = "free" /\ call.returned) =>
           /\ pc = "idle"
           /\ call.conn \notin Allocated
           /\ call.db \notin OpenHandles

T_C3 ==
    /\ Cardinality(OpenHandles) = Cardinality(Allocated)
    /\ \A c \in Allocated : delegate[c].db \in OpenHandles
    /\ \A c1, c2 \in Allocated : delegate[c1].db = delegate[c2].db => c1 = c2

\* the second of two handles that were open together is closed and none is left
W_C3 == call.op = "free" /\ call.returned /\ call.db = 2 /\ OpenHandles = {}

FixedSQL(op) ==
    CASE op = "ping" -> <<"select 1;">>
      [] op = "beginTransaction" -> <<"BEGIN TRANSACTION;">>
      [] op = "commit" -> <<"COMMIT TRANSACTION;">>
      [] op = "rollback" -> <<"ROLLBACK TRANSACTION;">>

CE_C7 ==
    (call.op \in SqlOps \cup Accessors /\ call.conn \in Allocated) =>
        (delegate[call.conn].lastError # SQLITE_OK =>
             (call.op \in SqlOps /\ call.status # SQLITE_OK))

\* C7 amended: lastError is the final status of the most recent native call that
\* executed or prepared SQL on the handle of the delegate, which lastRowId,
\* rowsChanged and getLastError do not make; and a call that ends with OK returns
\* success whatever failed before it.
T_C7 ==
    /\ \A c \in Allocated :
           (pc = "idle" \/ cur # c) =>
               delegate[c].lastError = sqlite.handles[delegate[c].db].errcode
    /\ (call.op \in SqlOps /\ call.conn \in Allocated) =>
           (call.ret # 0 <=> delegate[call.conn].lastError = SQLITE_OK)

\* an accessor returned and the failure of an earlier call is still recorded
W_C7 ==
    /\ call.op \in Accessors
    /\ call.conn \in Allocated
    /\ delegate[call.conn].lastError # SQLITE_OK

\* C8: executeQuery and prepareStatement return NULL exactly when the prepare ended
\* non-OK, with lastError that status; a returned object owns the one statement
\* compiled for it; and every native statement has an owner.
T_C8 ==
    /\ (call.op \in {"executeQuery", "prepareStatement"} /\ call.conn \in Allocated) =>
           /\ call.ret = 0 <=> call.status # SQLITE_OK
           /\ delegate[call.conn].lastError = call.status
           /\ (call.ret # 0 /\ ~call.freed) =>
                  /\ sqlite.stmts[call.ret] = delegate[call.conn].db
                  /\ objects[call.ret].kind =
                         (IF call.op = "executeQuery" THEN "ResultSet" ELSE "PreparedStatement")
    /\ \A s \in StmtIds :
           /\ sqlite.stmts[s] # 0 <=> objects[s].kind # "none"
           /\ objects[s].kind # "none" => (objects[s].stmt = s /\ ~objects[s].keep)

\* an executeQuery whose statement did not compile
W_C8 == call.op = "executeQuery" /\ call.ret = 0 /\ call.status = SQLITE_ERROR

RECURSIVE PragmaText(_)
PragmaText(params) ==
    IF params = <<>> THEN <<>>
    ELSE (IF Head(params).name = "heap_limit" THEN <<>>
          ELSE <<"PRAGMA", Head(params).name, "=", Head(params).value, ";">>)
         \o PragmaText(Tail(params))

\* C9: new sends the engine one PRAGMA per URL parameter other than heap_limit, in
\* URL order, never heap_limit; a non-OK status of the pragmas makes new return NULL
\* with a message and leaves no handle open that no delegate holds.
T_C9 ==
    call.op = "new" =>
        /\ call.issued = IF call.url.path = "/db" /\ Len(call.url.params) > 0
                         THEN <<PragmaText(call.url.params)>> ELSE <<>>
        /\ \A i \in 1..Len(call.issued) : \A j \in 1..Len(call.issued[i]) :
               call.issued[i][j] # "heap_limit"
        /\ call.status # SQLITE_OK =>
               /\ call.ret = 0
               /\ Len(call.error) > 0
               /\ \A h \in OpenHandles : \E c \in Allocated : delegate[c].db = h

\* a new given heap_limit and one other parameter, which sent exactly one PRAGMA
W_C9 ==
    /\ call.op = "new"
    /\ call.ret # 0
    /\ \E i \in 1..Len(call.url.params) : call.url.params[i].name = "heap_limit"
    /\ call.issued # <<>>
    /\ Len(call.issued[1]) = 5

Defaults ==
    \A c \in Allocated : delegate[c].timeout = SQL_DEFAULT_TIMEOUT /\ delegate[c].maxRows = 0

Frame ==
    /\ \A c \in Conns :
           (delegate[c].alloc /\ delegate'[c].alloc) =>
               /\ delegate'[c].db = delegate[c].db
               /\ delegate'[c].timeout = delegate[c].timeout
               /\ delegate'[c].maxRows = delegate[c].maxRows
    /\ call'.op \in Accessors => delegate' = delegate
    /\ (call'.op \in {"executeQuery", "prepareStatement"} /\ call'.ret # 0) =>
           objects'[call'.ret].maxRows = delegate[call'.conn].maxRows

\* C10: while a delegate lives no step changes its handle, timeout or maxRows, which
\* stay at the values new gave them; objects are created with the delegate's
\* maxRows; lastRowId, rowsChanged and getLastError change no field of any delegate.
T_C10 == []Defaults /\ [][Frame]_vars

\* rowsChanged returned on a delegate whose buffer and status earlier calls had set
W_C10 ==
    /\ call.op = "rowsChanged"
    /\ call.conn \in Allocated
    /\ delegate[call.conn].sb # <<>>
    /\ delegate[call.conn].lastError # SQLITE_OK
====
